---- MODULE Spec2Model ----
(***************************************************************************)
(* The edit-buffering and synchronisation core of Record-Manipulator-FE:   *)
(* RecordStore (src/unnamed/part_011), DirtyEngine (dirty.engine.ts),      *)
(* AutosaveEngine and PaginationEngine (autosave.engine.ts) and the        *)
(* AutosaveStore wiring (autosave.store.ts), run on one JavaScript event   *)
(* loop against a remote record API.                                       *)
(*                                                                         *)
(* One action is one task of the event loop: the synchronous part of a     *)
(* call up to its first await on the network, the delivery of one network  *)
(* response together with every continuation it resumes, the expiry of one *)
(* host timer, or one tick of the clock.                                   *)
(*                                                                         *)
(* Time is counted in ticks. DELAY_MS and FETCH_COOLDOWN are the program's *)
(* constants scaled down to ticks; DEFAULT_LIMIT is the page size scaled   *)
(* down to one record per page. Host timers fire exactly when due.         *)
(* AutosaveStore's display fields (status, lastSaved, dirtyCount) are read *)
(* by no operation modelled here and are left out.                         *)
(***************************************************************************)
EXTENDS Integers, Sequences, FiniteSets, TLC

\* ------------------------------------------------------------------ bounds
MaxTime == 4
MaxInFlight == 2
MaxRecords == 3
MaxPage == 3

\* ------------------------------------------------------- program constants
DELAY_MS == 2
FETCH_COOLDOWN == 1
DEFAULT_LIMIT == 1

NULL == "null"
NoKey == <<>>

Datasets == {"D1", "D2"}
Ids == {"r1", "r2", "r3"}
NewIds == {"n1"}
AllIds == Ids \cup NewIds
Fields == {"a", "b"}
Values == {"v0", "v1"}
EditValues == {"v1"}
SearchColumns == {"a"}
SearchValues == {"v0", "v1"}
SortColumns == {NULL, "a"}
PageArgs == {0, 1, 2}

VARIABLES
  store,      \* RecordStore: state, dirtyEngine, paginationEngine, private fields
  engine,     \* AutosaveEngine: timer, isSaving
  timers,     \* host timers armed by setTimeout and not yet fired or cleared
  flights,    \* remote calls awaiting their response, in order of issue
  remote,     \* the remote store: per dataset its record order, per record its data
  now,        \* Date.now(), in ticks
  lastAct,    \* history: the task that ran last
  unacked,    \* history: <<id, field, value>> written by updateRecord, not yet confirmed
  forceLog,   \* history: what the last force() did and how its promise settled
  fire,       \* history: what the last timer expiry did
  lastScheduleAt, \* history: time of the last schedule() call
  debounced,  \* history: the armed timer replaced an unexpired one armed earlier
  lastFlush,  \* history: the payload and the outcome of the flush that settled last
  notified,   \* history: RecordStore.notify() ran in the last task
  settled,    \* history: the operation the last response resumed, and how it settled
  lastList,   \* history: the list-replacing request issued last, <<>> before the first
  lastSortBy, \* history: the sortBy of the search that completed last
  unit        \* a DirtyEngine and a PaginationEngine called directly, and the last return

vars == <<store, engine, timers, flights, remote, now, lastAct, unacked,
          forceLog, fire, lastScheduleAt, debounced, lastFlush, notified, settled,
          lastList, lastSortBy, unit>>

\* ----------------------------------------------------------------- helpers
Min(a, b) == IF a < b THEN a ELSE b
Max(a, b) == IF a > b THEN a ELSE b

\* JavaScript truthiness of a string | null
Truthy(x) == x # NULL /\ x # ""

\* `${x || ''}` inside a template string
OrEmpty(x) == IF Truthy(x) THEN x ELSE ""

\* { ...old, ...new }
Spread(old, new) ==
  [f \in (DOMAIN old) \cup (DOMAIN new) |-> IF f \in DOMAIN new THEN new[f] ELSE old[f]]

RemoveAt(seq, i) == SubSeq(seq, 1, i - 1) \o SubSeq(seq, i + 1, Len(seq))

\* ------------------------------------------------------------- DirtyEngine
\* The Map id -> DirtyRecord is a function from the dirty ids to their data.
DirtyInit == [i \in {} |-> [f \in {} |-> "v0"]]

mark(d, id, data) == [i \in (DOMAIN d) \cup {id} |-> IF i = id THEN data ELSE d[i]]

clear(d, id) == [i \in (DOMAIN d) \ {id} |-> d[i]]

clearAll(d) == DirtyInit

isDirty(d, id) == id \in DOMAIN d

hasDirty(d) == Cardinality(DOMAIN d) > 0

getDirtyCount(d) == Cardinality(DOMAIN d)

getDirtyRecords(d) == d

\* Array.from(this.dirty.values()).map(record => ({ id, data })): one element
\* for each entry of the Map
RECURSIVE Payloads(_, _)
Payloads(d, ids) ==
  IF ids = {} THEN <<>>
  ELSE LET id == CHOOSE x \in ids : TRUE
       IN <<[id |-> id, data |-> d[id]]>> \o Payloads(d, ids \ {id})

\* A flush that returns the entries and leaves them buffered
flushKeeping(d) == [ret |-> Payloads(d, DOMAIN d), d |-> d]

\* flush: the payloads and the emptied Map
flush(d) == [ret |-> Payloads(d, DOMAIN d), d |-> clearAll(d)]

\* An update in which the value already buffered wins for a field in both
updateOldWins(d, id, data) ==
  IF id \in DOMAIN d THEN mark(d, id, Spread(data, d[id])) ELSE mark(d, id, data)

\* An update that replaces the entry instead of merging into it
updateReplacing(d, id, data) == mark(d, id, data)

update(d, id, data) ==
  IF id \in DOMAIN d THEN mark(d, id, Spread(d[id], data)) ELSE mark(d, id, data)

\* -------------------------------------------------------- PaginationEngine
PaginationEngineInit ==
  [page |-> 1, limit |-> DEFAULT_LIMIT, hasMore |-> TRUE, total |-> 0, totalPages |-> 0]

setMeta(p, meta) ==
  [page |-> meta.page, limit |-> meta.limit, hasMore |-> meta.hasNext,
   total |-> meta.total, totalPages |-> meta.totalPages]

reset(p) == [p EXCEPT !.page = 1, !.hasMore = TRUE, !.total = 0, !.totalPages = 0]

\* A next that advances whether or not more pages exist
nextAlways(p) == [p |-> [p EXCEPT !.page = p.page + 1], ret |-> <<p.page + 1>>]

\* next, prev and goToPage return <<page>>, or <<>> for null
next(p) ==
  IF ~p.hasMore THEN [p |-> p, ret |-> <<>>]
  ELSE [p |-> [p EXCEPT !.page = p.page + 1], ret |-> <<p.page + 1>>]

prev(p) ==
  IF p.page <= 1 THEN [p |-> p, ret |-> <<>>]
  ELSE [p |-> [p EXCEPT !.page = p.page - 1], ret |-> <<p.page - 1>>]

goToPage(p, page) ==
  IF page < 1 THEN [p |-> p, ret |-> <<>>]
  ELSE IF p.totalPages > 0 /\ page > p.totalPages THEN [p |-> p, ret |-> <<>>]
  ELSE [p |-> [p EXCEPT !.page = page], ret |-> <<page>>]

\* -------------------------------------------------------------- the remote
RemoteInit ==
  [order |-> [d \in Datasets |-> IF d = "D1" THEN <<"r1", "r2">> ELSE <<"r3">>],
   data  |-> [i \in AllIds |-> [f \in Fields |-> "v0"]],
   fresh |-> NewIds]

CeilDiv(n, k) == (n + k - 1) \div k

RemoteRecords(r, ids) ==
  [i \in 1..Len(ids) |-> [id |-> ids[i], data |-> r.data[ids[i]], dirty |-> FALSE]]

Matching(r, ds, col, val) ==
  SelectSeq(r.order[ds], LAMBDA id : r.data[id][col] = val)

SortedBy(r, ids, col) ==
  IF col = NULL THEN ids
  ELSE SelectSeq(ids, LAMBDA id : r.data[id][col] = "v0")
       \o SelectSeq(ids, LAMBDA id : r.data[id][col] # "v0")

PageResponse(r, ids, page, limit) ==
  LET first == (page - 1) * limit + 1
      last  == Min(page * limit, Len(ids))
      tp    == CeilDiv(Len(ids), limit)
  IN [records |-> RemoteRecords(r, SubSeq(ids, first, last)),
      meta |-> [page |-> page, limit |-> limit, total |-> Len(ids),
                totalPages |-> tp, hasNext |-> page < tp, hasPrev |-> page > 1]]

\* fetchPage(datasetId, page, limit, search?)
fetchPage(r, req) ==
  PageResponse(r,
    IF req.col # NULL THEN Matching(r, req.ds, req.col, req.val) ELSE r.order[req.ds],
    req.page, req.limit)

\* searchPage(datasetId, column, value, sortBy?)
searchPage(r, req) ==
  PageResponse(r, SortedBy(r, Matching(r, req.ds, req.col, req.val), req.sortBy),
    1, DEFAULT_LIMIT)

\* batchUpdate(datasetId, patches): the remote merges every patch it knows the id of
batchUpdate(r, payload) ==
  [r EXCEPT !.data = [i \in AllIds |->
     IF i \in DOMAIN payload THEN Spread(r.data[i], payload[i]) ELSE r.data[i]]]

\* deleteOne(datasetId, id)
deleteOne(r, ds, id) ==
  [r EXCEPT !.order[ds] = SelectSeq(r.order[ds], LAMBDA x : x # id)]

\* ------------------------------------------------------------- RecordStore
NoSearch == [column |-> NULL, value |-> NULL]

PaginationInit ==
  [page |-> 1, limit |-> DEFAULT_LIMIT, total |-> 0, totalPages |-> 0, hasMore |-> FALSE]

StoreInit ==
  [records |-> <<>>,
   pagination |-> PaginationInit,
   search |-> [column |-> NULL, value |-> NULL],
   isLoading |-> FALSE,
   isUpdating |-> FALSE,
   error |-> NULL,
   dirtyEngine |-> DirtyInit,
   paginationEngine |-> PaginationEngineInit,
   currentDatasetId |-> NULL,
   isFetchingRecords |-> FALSE,
   lastFetchedRecordsDatasetId |-> NoKey,
   lastRecordsFetchTime |-> 0,
   isSearching |-> FALSE,
   lastSearchKey |-> NoKey,
   lastSearchTime |-> 0]

\* A remote call awaiting its response. cont names the caller that awaits it:
\* "delete" the re-fetch of deleteRecord, "fallback" its page-1 fallback,
\* "clearSearch" the re-fetch of clearSearch, "timer" / "force" the flush's driver.
Request(kind, ds) ==
  [kind |-> kind, ds |-> ds, page |-> 0, limit |-> 0, col |-> NULL, val |-> NULL,
   sortBy |-> NULL, append |-> FALSE, force |-> FALSE, id |-> NULL,
   payload |-> DirtyInit, cont |-> "none", contPage |-> 0]

\* What the synchronous part of a call leaves: the store and the requests it issued.
Ran(s, reqs) == [s |-> s, reqs |-> reqs]

\* A clearRecords that leaves the DirtyEngine as it is
clearRecordsKeepingDirty(s) ==
  [s EXCEPT !.records = <<>>,
            !.pagination = PaginationInit,
            !.search = NoSearch,
            !.paginationEngine = reset(s.paginationEngine),
            !.currentDatasetId = NULL,
            !.lastFetchedRecordsDatasetId = NoKey,
            !.lastRecordsFetchTime = 0,
            !.lastSearchKey = NoKey,
            !.lastSearchTime = 0]

clearRecords(s) ==
  [s EXCEPT !.records = <<>>,
            !.pagination = PaginationInit,
            !.search = [column |-> NULL, value |-> NULL],
            !.paginationEngine = reset(s.paginationEngine),
            !.dirtyEngine = clearAll(s.dirtyEngine),
            !.currentDatasetId = NULL,
            !.lastFetchedRecordsDatasetId = NoKey,
            !.lastRecordsFetchTime = 0,
            !.lastSearchKey = NoKey,
            !.lastSearchTime = 0]

\* The search-mode guard of fetchRecords
InSearchMode(s) == Truthy(s.search.column) \/ Truthy(s.search.value)

FetchKey(s, datasetId, currentPage) ==
  <<datasetId, currentPage, OrEmpty(s.search.column), OrEmpty(s.search.value)>>

\* The in-flight and cooldown checks of fetchRecords
FetchIsDuplicate(s, fetchKey) ==
  \/ s.isFetchingRecords /\ s.lastFetchedRecordsDatasetId = fetchKey
  \/ /\ s.lastFetchedRecordsDatasetId = fetchKey
     /\ s.lastRecordsFetchTime # 0
     /\ now - s.lastRecordsFetchTime < FETCH_COOLDOWN

\* fetchRecords up to its await
fetchRecords(s, datasetId, page, append, force, cont, contPage) ==
  LET currentPage == IF page # 0 THEN page ELSE s.pagination.page
      fetchKey == FetchKey(s, datasetId, currentPage)
  IN IF ~force /\ InSearchMode(s) THEN Ran(s, <<>>)
     ELSE IF ~force /\ FetchIsDuplicate(s, fetchKey) THEN Ran(s, <<>>)
     ELSE
       LET s1 == IF s.currentDatasetId # datasetId /\ ~append THEN clearRecords(s) ELSE s
           s2 == [s1 EXCEPT !.currentDatasetId = datasetId,
                            !.isFetchingRecords = TRUE,
                            !.lastFetchedRecordsDatasetId = fetchKey,
                            !.isLoading = TRUE,
                            !.error = NULL]
           both == Truthy(s2.search.column) /\ Truthy(s2.search.value)
           req == [Request("fetch", datasetId) EXCEPT
                     !.page = currentPage,
                     !.limit = s2.pagination.limit,
                     !.col = IF both THEN s2.search.column ELSE NULL,
                     !.val = IF both THEN s2.search.value ELSE NULL,
                     !.append = append, !.force = force,
                     !.cont = cont, !.contPage = contPage]
       IN Ran(s2, <<req>>)

WithDirty(s, records) ==
  [i \in 1..Len(records) |->
     [records[i] EXCEPT !.dirty = isDirty(s.dirtyEngine, records[i].id)]]

StatePagination(meta) ==
  [page |-> meta.page, limit |-> meta.limit, total |-> meta.total,
   totalPages |-> meta.totalPages, hasMore |-> meta.hasNext]

\* fetchRecords after its await resolved, with its finally
fetchRecordsResolved(s, req, response) ==
  LET records == IF req.append THEN s.records \o response.records ELSE response.records
  IN [s EXCEPT !.paginationEngine = setMeta(s.paginationEngine, response.meta),
               !.records = WithDirty(s, records),
               !.pagination = StatePagination(response.meta),
               !.isLoading = FALSE,
               !.error = NULL,
               !.lastRecordsFetchTime = now,
               !.isFetchingRecords = FALSE]

\* fetchRecords after its await rejected, with its finally
fetchRecordsRejected(s) ==
  [s EXCEPT !.isLoading = FALSE, !.error = "fetch failed", !.isFetchingRecords = FALSE]

SearchKey(datasetId, column, value) == <<datasetId, column, value>>

\* The in-flight and cooldown checks of searchRecords
SearchIsDuplicate(s, searchKey) ==
  \/ s.isSearching /\ s.lastSearchKey = searchKey
  \/ /\ s.lastSearchKey = searchKey
     /\ s.lastSearchTime # 0
     /\ now - s.lastSearchTime < FETCH_COOLDOWN

\* searchRecords up to its await
searchRecords(s, datasetId, column, value, sortBy, force) ==
  LET searchKey == SearchKey(datasetId, column, value)
  IN IF ~force /\ SearchIsDuplicate(s, searchKey) THEN Ran(s, <<>>)
     ELSE
       LET s1 == [s EXCEPT !.currentDatasetId = datasetId,
                           !.isSearching = TRUE,
                           !.lastSearchKey = searchKey,
                           !.isLoading = TRUE,
                           !.error = NULL,
                           !.search = [column |-> column, value |-> value],
                           !.paginationEngine = reset(s.paginationEngine)]
           req == [Request("search", datasetId) EXCEPT
                     !.col = column, !.val = value, !.sortBy = sortBy, !.force = force]
       IN Ran(s1, <<req>>)

\* A search that keeps the buffered patches of the returned records only
searchRecordsResolvedDiscarding(s, response) ==
  LET returned == {response.records[i].id : i \in 1..Len(response.records)}
      kept == [id \in (DOMAIN s.dirtyEngine) \cap returned |-> s.dirtyEngine[id]]
      s1 == [s EXCEPT !.dirtyEngine = kept]
  IN [s1 EXCEPT !.paginationEngine = setMeta(s.paginationEngine, response.meta),
                !.records = WithDirty(s1, response.records),
                !.pagination = StatePagination(response.meta),
                !.isLoading = FALSE,
                !.error = NULL,
                !.lastSearchTime = now,
                !.isSearching = FALSE]

\* searchRecords after its await resolved, with its finally
searchRecordsResolved(s, response) ==
  [s EXCEPT !.paginationEngine = setMeta(s.paginationEngine, response.meta),
            !.records = WithDirty(s, response.records),
            !.pagination = StatePagination(response.meta),
            !.isLoading = FALSE,
            !.error = NULL,
            !.lastSearchTime = now,
            !.isSearching = FALSE]

\* searchRecords after its await rejected, with its finally
searchRecordsRejected(s) ==
  [s EXCEPT !.isLoading = FALSE, !.error = "search failed", !.isSearching = FALSE]

\* clearSearch up to the await of its re-fetch
clearSearch(s) ==
  LET s1 == [s EXCEPT !.search = [column |-> NULL, value |-> NULL],
                      !.lastSearchKey = NoKey,
                      !.lastSearchTime = 0]
  IN IF s1.currentDatasetId # NULL
     THEN fetchRecords(s1, s1.currentDatasetId, 1, FALSE, TRUE, "clearSearch", 0)
     ELSE Ran(s1, <<>>)

\* createRecord up to its await
createRecord(s, datasetId, data) ==
  Ran([s EXCEPT !.isLoading = TRUE, !.error = NULL],
      <<[Request("create", datasetId) EXCEPT !.payload = data]>>)

\* createRecord after its await resolved
createRecordResolved(s, newRecord) ==
  [s EXCEPT !.records = <<[newRecord EXCEPT !.dirty = FALSE]>> \o s.records,
            !.pagination = [s.pagination EXCEPT !.total = s.pagination.total + 1],
            !.isLoading = FALSE,
            !.error = NULL]

createRecordRejected(s) ==
  [s EXCEPT !.isLoading = FALSE, !.error = "create failed"]

\* updateRecord: synchronous, local
updateRecord(s, recordId, data) ==
  [s EXCEPT !.dirtyEngine = update(s.dirtyEngine, recordId, data),
            !.records = [i \in 1..Len(s.records) |->
               IF s.records[i].id = recordId
               THEN [s.records[i] EXCEPT !.data = Spread(s.records[i].data, data),
                                         !.dirty = TRUE]
               ELSE s.records[i]]]

\* What a flush leaves: the store, the requests issued and how its promise stands
\* ("pending" while the batch update is awaited).
Flushed(s, reqs, out) == [s |-> s, reqs |-> reqs, out |-> out]

\* updateRecords up to its await
updateRecords(s, records, via) ==
  IF s.currentDatasetId = NULL THEN Flushed(s, <<>>, "rejected")
  ELSE Flushed([s EXCEPT !.isUpdating = TRUE, !.error = NULL],
               <<[Request("update", s.currentDatasetId) EXCEPT
                    !.payload = records, !.cont = via]>>,
               "pending")

RECURSIVE ClearEach(_, _)
ClearEach(d, ids) ==
  IF ids = {} THEN d
  ELSE LET id == CHOOSE x \in ids : TRUE IN ClearEach(clear(d, id), ids \ {id})

\* A success handler that leaves the sent entries buffered and flagged
updateRecordsResolvedKeeping(s, records) ==
  [s EXCEPT !.isUpdating = FALSE, !.error = NULL]

\* updateRecords after its await resolved
updateRecordsResolved(s, records) ==
  [s EXCEPT !.dirtyEngine = ClearEach(s.dirtyEngine, DOMAIN records),
            !.records = [i \in 1..Len(s.records) |->
               IF s.records[i].id \in DOMAIN records
               THEN [s.records[i] EXCEPT
                       !.data = Spread(s.records[i].data, records[s.records[i].id]),
                       !.dirty = FALSE]
               ELSE s.records[i]],
            !.isUpdating = FALSE,
            !.error = NULL]

\* A catch that gives the failed edits up: it empties the buffer and the flags
updateRecordsRejectedClearing(s) ==
  [s EXCEPT !.dirtyEngine = ClearEach(s.dirtyEngine, DOMAIN s.dirtyEngine),
            !.records = [i \in 1..Len(s.records) |-> [s.records[i] EXCEPT !.dirty = FALSE]],
            !.isUpdating = FALSE,
            !.error = "update failed"]

\* updateRecords after its await rejected
updateRecordsRejected(s) ==
  [s EXCEPT !.isUpdating = FALSE, !.error = "update failed"]

\* deleteRecord up to its await (the caller checks currentDatasetId)
deleteRecord(s, recordId) ==
  Ran([s EXCEPT !.isLoading = TRUE, !.error = NULL],
      <<[Request("delete", s.currentDatasetId) EXCEPT
           !.id = recordId, !.contPage = s.pagination.page]>>)

\* deleteRecord after the remote delete resolved, up to the await of its re-fetch
deleteRecordResolved(s, req) ==
  fetchRecords([s EXCEPT !.dirtyEngine = clear(s.dirtyEngine, req.id)],
               req.ds, req.contPage, FALSE, TRUE, "delete", req.contPage)

\* A deleteRecord that stops after its re-fetch
deleteRecordRefetchedOnly(s, req) == Ran(s, <<>>)

\* deleteRecord after its re-fetch resolved
deleteRecordRefetched(s, req) ==
  IF req.contPage > 1 /\ Len(s.records) = 0
  THEN fetchRecords(s, req.ds, Max(1, req.contPage - 1), FALSE, TRUE, "fallback", 0)
  ELSE Ran(s, <<>>)

\* the catch of deleteRecord
deleteRecordRejected(s) ==
  [s EXCEPT !.isLoading = FALSE, !.error = "delete failed"]

\* A fetchRecords whose catch stores the message and returns
fetchRecordsSwallows(remoteOut) == "resolved"

\* How the promise of each operation settles, given how its remote call settled:
\* every catch stores the message and throws the error again.
fetchRecordsSettles(remoteOut) == remoteOut

searchRecordsSettles(remoteOut) == remoteOut

createRecordSettles(remoteOut) == remoteOut

updateRecordsSettles(remoteOut) == remoteOut

deleteRecordSettles(remoteOut) == remoteOut

\* ---------------------------------------------------------- AutosaveStore
\* flushDirtyRecords awaits updateRecords and throws its error again
flushDirtyRecordsSettles(remoteOut) == updateRecordsSettles(remoteOut)

\* flushDirtyRecords, the flush callback of the engine, up to its await
flushDirtyRecords(s, via) ==
  IF ~hasDirty(s.dirtyEngine) THEN Flushed(s, <<>>, "resolved")
  ELSE updateRecords(s, getDirtyRecords(s.dirtyEngine), via)

\* --------------------------------------------------------- AutosaveEngine
\* timer = 0 stands for null; a host timer is [h |-> handle, due |-> time].
EngineInit == [timer |-> 0, isSaving |-> FALSE]

Armed(e, T) == [e |-> e, T |-> T]

\* setTimeout: a handle no pending timer has
NewHandle(T) ==
  IF T = {} THEN 1
  ELSE 1 + (CHOOSE m \in {t.h : t \in T} : \A t \in T : t.h <= m)

\* A cancel() that forgets its handle without clearTimeout
cancelKeepingTimer(e, T) == Armed([e EXCEPT !.timer = 0], T)

cancel(e, T) ==
  IF e.timer # 0
  THEN Armed([e EXCEPT !.timer = 0], {t \in T : t.h # e.timer})
  ELSE Armed(e, T)

\* A schedule() that arms a second timer beside the pending one
scheduleWithoutCancel(e, T) ==
  LET h == NewHandle(T)
  IN Armed([e EXCEPT !.timer = h], T \cup {[h |-> h, due |-> now + DELAY_MS]})

schedule(e, T) ==
  LET c == cancel(e, T)
      h == NewHandle(c.T)
  IN Armed([c.e EXCEPT !.timer = h], c.T \cup {[h |-> h, due |-> now + DELAY_MS]})

\* How the promise of execute() settles, given how the flush settled:
\* try { await flushFn() } catch { console.error } finally { isSaving = false }
executeSettles(flushOut) == "resolved"

\* An execute() without its reentrancy guard
executeNeverSkips(e) == FALSE

\* The reentrancy guard of execute
executeSkips(e) == e.isSaving

\* execute up to its await (or to its end when the flush settles at once)
execute(e, s, via) ==
  IF executeSkips(e)
  THEN [e |-> e, s |-> s, reqs |-> <<>>, invoked |-> FALSE, flush |-> "none",
        out |-> "resolved"]
  ELSE LET f == flushDirtyRecords(s, via)
       IN [e |-> [e EXCEPT !.isSaving = (f.out = "pending"), !.timer = 0],
           s |-> f.s, reqs |-> f.reqs, invoked |-> TRUE, flush |-> f.out,
           out |-> IF f.out = "pending" THEN "pending" ELSE executeSettles(f.out)]

isScheduled(e) == e.timer # 0

\* A force() that leaves the pending timer armed
forceWithoutCancel(e, T) == Armed(e, T)

\* force, before it calls execute: cancel
force(e, T) == cancel(e, T)

\* ------------------------------------------------------------------- Init
NoneSettled == [op |-> "none", out |-> "none", cont |-> "none"]

\* A DirtyEngine and a PaginationEngine after construction; ret is what the last
\* direct call returned
UnitInit ==
  [dirty |-> DirtyInit, cursor |-> PaginationEngineInit, call |-> <<>>, ret |-> <<>>]

Init ==
  /\ store = StoreInit
  /\ engine = EngineInit
  /\ timers = {}
  /\ flights = <<>>
  /\ remote = RemoteInit
  /\ now = 1
  /\ lastAct = "init"
  /\ unacked = {}
  /\ forceLog = [did |-> "none", saving |-> FALSE, flush |-> "none", settled |-> "none"]
  /\ fire = [saving |-> FALSE, invoked |-> FALSE, debounced |-> FALSE]
  /\ lastScheduleAt = 0
  /\ debounced = FALSE
  /\ lastFlush = [payload |-> DirtyInit, out |-> "none"]
  /\ notified = FALSE
  /\ settled = NoneSettled
  /\ lastList = <<>>
  /\ lastSortBy = NULL
  /\ unit = UnitInit

\* ---------------------------------------------------------------- history
schedVars == <<forceLog, fire, lastScheduleAt, debounced, lastFlush, unit>>

ListedIds == {store.records[i].id : i \in 1..Len(store.records)}

\* The edits updateRecord wrote and no confirmed payload carried, after a call
\* left the buffer d: a dataset switch or a delete drops the edits on purpose.
StillUnacked(d) == {u \in unacked : u[1] \in DOMAIN d}

\* A request whose response replaces the list: a search, or a fetch without append
ListReplacing(req) == req.kind = "search" \/ (req.kind = "fetch" /\ ~req.append)

\* The list-replacing request issued last, after a call issued reqs
IssuedLast(reqs) ==
  IF reqs # <<>> /\ ListReplacing(reqs[Len(reqs)]) THEN <<reqs[Len(reqs)]>> ELSE lastList

\* A call of the UI that may issue one request
UserCall(r, name) ==
  /\ Len(flights) < MaxInFlight
  /\ r.reqs # <<>>
  /\ store' = r.s
  /\ flights' = flights \o r.reqs
  /\ unacked' = StillUnacked(r.s.dirtyEngine)
  /\ lastAct' = name
  /\ notified' = TRUE
  /\ settled' = NoneSettled
  /\ lastList' = IssuedLast(r.reqs)
  /\ UNCHANGED <<lastSortBy, engine, timers, remote, now, schedVars>>

\* The delivery of the response to flights[i]: r is what the resumed code leaves
Delivered(i, r, rem, name, out) ==
  /\ store' = r.s
  /\ notified' = TRUE
  /\ settled' = [op |-> flights[i].kind, out |-> out, cont |-> flights[i].cont]
  /\ flights' = RemoveAt(flights, i) \o r.reqs
  /\ remote' = rem
  /\ unacked' = StillUnacked(r.s.dirtyEngine)
  /\ lastAct' = name
  /\ lastList' = IssuedLast(r.reqs)
  /\ lastSortBy' = IF name = "SearchOk" THEN flights[i].sortBy ELSE lastSortBy
  /\ UNCHANGED <<engine, timers, now, schedVars>>

\* ------------------------------------------------------ RecordStore calls
\* An appending fetch is issued while the list it extends has room left
FetchRecords(datasetId, page, append) ==
  /\ append => Len(store.records)
                 + Cardinality({i \in 1..Len(flights) : flights[i].append}) < MaxRecords
  /\ UserCall(fetchRecords(store, datasetId, page, append, FALSE, "none", 0), "FetchRecords")

\* useRecords on a dataset change: fetchRecords(datasetId, 1, false, true)
ForceFetch(datasetId) ==
  UserCall(fetchRecords(store, datasetId, 1, FALSE, TRUE, "none", 0), "ForceFetch")

SearchRecords(datasetId, column, value, sortBy) ==
  UserCall(searchRecords(store, datasetId, column, value, sortBy, FALSE), "SearchRecords")

ClearSearch ==
  /\ InSearchMode(store)
  /\ UserCall(clearSearch(store), "ClearSearch")

CreateRecord(datasetId) ==
  /\ remote.fresh # {}
  /\ UserCall(createRecord(store, datasetId, [f \in Fields |-> "v0"]), "CreateRecord")

DeleteRecord(recordId) ==
  /\ store.currentDatasetId # NULL
  /\ recordId \in ListedIds
  /\ UserCall(deleteRecord(store, recordId), "DeleteRecord")

UpdateRecord(recordId, f, v) ==
  /\ recordId \in ListedIds
  /\ store' = updateRecord(store, recordId, [x \in {f} |-> v])
  /\ unacked' = {u \in unacked : ~(u[1] = recordId /\ u[2] = f)} \cup {<<recordId, f, v>>}
  /\ lastAct' = "UpdateRecord"
  /\ notified' = TRUE
  /\ settled' = NoneSettled
  /\ UNCHANGED <<lastList, lastSortBy, engine, timers, flights, remote, now, schedVars>>

\* --------------------------------------------------------------- responses
FetchOk(i) ==
  /\ flights[i].kind = "fetch"
  /\ LET req == flights[i]
         s1 == fetchRecordsResolved(store, req, fetchPage(remote, req))
     IN Delivered(i, IF req.cont = "delete" THEN deleteRecordRefetched(s1, req)
                     ELSE Ran(s1, <<>>),
                  remote, "FetchOk", fetchRecordsSettles("resolved"))

FetchFail(i) ==
  /\ flights[i].kind = "fetch"
  /\ LET req == flights[i]
         s1 == fetchRecordsRejected(store)
         out == fetchRecordsSettles("rejected")
     IN Delivered(i, Ran(IF req.cont \in {"delete", "fallback"} /\ out = "rejected"
                         THEN deleteRecordRejected(s1) ELSE s1, <<>>),
                  remote, "FetchFail", out)

SearchOk(i) ==
  /\ flights[i].kind = "search"
  /\ Delivered(i, Ran(searchRecordsResolved(store, searchPage(remote, flights[i])), <<>>),
               remote, "SearchOk", searchRecordsSettles("resolved"))

SearchFail(i) ==
  /\ flights[i].kind = "search"
  /\ Delivered(i, Ran(searchRecordsRejected(store), <<>>), remote, "SearchFail",
               searchRecordsSettles("rejected"))

CreateOk(i) ==
  /\ flights[i].kind = "create"
  /\ \E id \in remote.fresh :
       LET req == flights[i]
           rem == [remote EXCEPT !.order[req.ds] = Append(remote.order[req.ds], id),
                                 !.data[id] = req.payload,
                                 !.fresh = remote.fresh \ {id}]
       IN Delivered(i, Ran(createRecordResolved(store,
                             [id |-> id, data |-> req.payload, dirty |-> FALSE]), <<>>),
                    rem, "CreateOk", createRecordSettles("resolved"))

CreateFail(i) ==
  /\ flights[i].kind = "create"
  /\ Delivered(i, Ran(createRecordRejected(store), <<>>), remote, "CreateFail",
               createRecordSettles("rejected"))

DeleteOk(i) ==
  /\ flights[i].kind = "delete"
  /\ LET req == flights[i]
     IN Delivered(i, deleteRecordResolved(store, req),
                  deleteOne(remote, req.ds, req.id), "DeleteOk", "pending")

DeleteFail(i) ==
  /\ flights[i].kind = "delete"
  /\ Delivered(i, Ran(deleteRecordRejected(store), <<>>), remote, "DeleteFail",
               deleteRecordSettles("rejected"))

\* The batch update of a flush resolved: updateRecords resumes, then the finally
\* of execute, then the caller of force()
UpdateOk(i) ==
  /\ flights[i].kind = "update"
  /\ LET req == flights[i]
     IN /\ store' = updateRecordsResolved(store, req.payload)
        /\ remote' = batchUpdate(remote, req.payload)
        /\ flights' = RemoveAt(flights, i)
        /\ engine' = [engine EXCEPT !.isSaving = FALSE]
        /\ unacked' = {u \in unacked :
                         ~(/\ u[1] \in DOMAIN req.payload
                           /\ u[2] \in DOMAIN req.payload[u[1]]
                           /\ req.payload[u[1]][u[2]] = u[3])}
        /\ forceLog' = IF req.cont = "force"
                       THEN [did |-> "invoked", saving |-> FALSE,
                             flush |-> flushDirtyRecordsSettles("resolved"),
                             settled |-> executeSettles(flushDirtyRecordsSettles("resolved"))]
                       ELSE forceLog
        /\ lastFlush' = [payload |-> req.payload,
                         out |-> flushDirtyRecordsSettles("resolved")]
  /\ lastAct' = "UpdateOk"
  /\ notified' = TRUE
  /\ settled' = [op |-> "update", out |-> updateRecordsSettles("resolved"),
                 cont |-> flights[i].cont]
  /\ UNCHANGED <<lastList, lastSortBy, timers, now, fire, lastScheduleAt, debounced, unit>>

\* The batch update of a flush rejected
UpdateFail(i) ==
  /\ flights[i].kind = "update"
  /\ LET req == flights[i]
     IN /\ store' = updateRecordsRejected(store)
        /\ flights' = RemoveAt(flights, i)
        /\ engine' = [engine EXCEPT !.isSaving = FALSE]
        /\ forceLog' = IF req.cont = "force"
                       THEN [did |-> "invoked", saving |-> FALSE,
                             flush |-> flushDirtyRecordsSettles("rejected"),
                             settled |-> executeSettles(flushDirtyRecordsSettles("rejected"))]
                       ELSE forceLog
        /\ lastFlush' = [payload |-> req.payload,
                         out |-> flushDirtyRecordsSettles("rejected")]
  /\ lastAct' = "UpdateFail"
  /\ notified' = TRUE
  /\ settled' = [op |-> "update", out |-> updateRecordsSettles("rejected"),
                 cont |-> flights[i].cont]
  /\ UNCHANGED <<lastList, lastSortBy, remote, timers, now, unacked, fire, lastScheduleAt, debounced, unit>>

\* ------------------------------------------------------ AutosaveStore calls
\* triggerAutosave: returns early on a clean buffer, else schedule()
TriggerAutosave ==
  /\ hasDirty(store.dirtyEngine)
  /\ now + DELAY_MS <= MaxTime
  /\ LET a == schedule(engine, timers)
     IN engine' = a.e /\ timers' = a.T
  /\ lastScheduleAt' = now
  /\ debounced' = \E t \in timers : t.due > now /\ t.due < now + DELAY_MS
  /\ lastAct' = "TriggerAutosave"
  /\ notified' = FALSE
  /\ settled' = NoneSettled
  /\ UNCHANGED <<lastList, lastSortBy, store, flights, remote, now, unacked, forceLog, fire, lastFlush, unit>>

\* forceSave: returns early on a clean buffer, else awaits force()
ForceSave ==
  /\ hasDirty(store.dirtyEngine)
  /\ LET a == force(engine, timers)
         x == execute(a.e, store, "force")
     IN /\ Len(flights \o x.reqs) <= MaxInFlight
        /\ engine' = x.e
        /\ timers' = a.T
        /\ store' = x.s
        /\ flights' = flights \o x.reqs
        /\ notified' = (x.reqs # <<>>)
        /\ forceLog' = [did |-> IF x.invoked THEN "invoked" ELSE "skipped",
                        saving |-> engine.isSaving, flush |-> x.flush,
                        settled |-> x.out]
  /\ debounced' = FALSE
  /\ lastAct' = "ForceSave"
  /\ settled' = NoneSettled
  /\ UNCHANGED <<lastList, lastSortBy, remote, now, unacked, fire, lastScheduleAt, lastFlush, unit>>

\* cancelAutosave: cancel()
CancelAutosave ==
  /\ engine.timer # 0
  /\ LET a == cancel(engine, timers)
     IN engine' = a.e /\ timers' = a.T
  /\ debounced' = FALSE
  /\ lastAct' = "CancelAutosave"
  /\ notified' = FALSE
  /\ settled' = NoneSettled
  /\ UNCHANGED <<lastList, lastSortBy, store, flights, remote, now, unacked, forceLog, fire, lastScheduleAt,
                 lastFlush, unit>>

\* ------------------------------------------------------------ the host
\* A host timer is due: its callback runs execute()
TimerFire ==
  \E t \in timers :
    /\ t.due <= now
    /\ LET x == execute(engine, store, "timer")
       IN /\ Len(flights \o x.reqs) <= MaxInFlight
          /\ engine' = x.e
          /\ store' = x.s
          /\ flights' = flights \o x.reqs
          /\ notified' = (x.reqs # <<>>)
          /\ fire' = [saving |-> engine.isSaving, invoked |-> x.invoked,
                      debounced |-> debounced]
    /\ timers' = timers \ {t}
    /\ debounced' = FALSE
    /\ lastAct' = "TimerFire"
    /\ settled' = NoneSettled
    /\ UNCHANGED <<lastList, lastSortBy, remote, now, unacked, forceLog, lastScheduleAt, lastFlush, unit>>

Tick ==
  /\ now < MaxTime
  /\ \A t \in timers : t.due > now
  /\ now' = now + 1
  /\ lastAct' = "Tick"
  /\ notified' = FALSE
  /\ settled' = NoneSettled
  /\ UNCHANGED <<lastList, lastSortBy, store, engine, timers, flights, remote, unacked, schedVars>>

\* ------------------------------------------- the engines, called directly
\* A patch: some fields with a value each
Patches == UNION {[S -> Values] : S \in (SUBSET Fields) \ {{}}}

\* The page metadata of a listing of total records, read at page
Metas ==
  {[page |-> pg, limit |-> DEFAULT_LIMIT, total |-> n,
    totalPages |-> CeilDiv(n, DEFAULT_LIMIT),
    hasNext |-> pg < CeilDiv(n, DEFAULT_LIMIT), hasPrev |-> pg > 1] :
     pg \in 1..MaxPage, n \in 0..MaxPage}

\* A direct call: what it leaves in the engines, its arguments and its return
Called(u, name) ==
  /\ unit' = u
  /\ lastAct' = name
  /\ notified' = FALSE
  /\ settled' = NoneSettled
  /\ UNCHANGED <<lastList, lastSortBy, store, engine, timers, flights, remote, now, unacked, forceLog, fire,
                 lastScheduleAt, debounced, lastFlush>>

DirtyMark(id, data) ==
  Called([unit EXCEPT !.dirty = mark(@, id, data), !.call = <<id, data>>, !.ret = <<>>],
         "DirtyMark")

DirtyUpdate(id, data) ==
  Called([unit EXCEPT !.dirty = update(@, id, data), !.call = <<id, data>>, !.ret = <<>>],
         "DirtyUpdate")

DirtyClear(id) ==
  Called([unit EXCEPT !.dirty = clear(@, id), !.call = <<id>>, !.ret = <<>>], "DirtyClear")

DirtyFlush ==
  LET r == flush(unit.dirty)
  IN Called([unit EXCEPT !.dirty = r.d, !.call = <<>>, !.ret = r.ret], "DirtyFlush")

CursorNext ==
  /\ unit.cursor.page < MaxPage
  /\ LET r == next(unit.cursor)
     IN Called([unit EXCEPT !.cursor = r.p, !.call = <<>>, !.ret = r.ret], "CursorNext")

CursorPrev ==
  LET r == prev(unit.cursor)
  IN Called([unit EXCEPT !.cursor = r.p, !.call = <<>>, !.ret = r.ret], "CursorPrev")

CursorGoToPage(page) ==
  LET r == goToPage(unit.cursor, page)
  IN Called([unit EXCEPT !.cursor = r.p, !.call = <<page>>, !.ret = r.ret],
            "CursorGoToPage")

CursorSetMeta(meta) ==
  Called([unit EXCEPT !.cursor = setMeta(@, meta), !.call = <<meta>>, !.ret = <<>>],
         "CursorSetMeta")

CursorReset ==
  Called([unit EXCEPT !.cursor = reset(@), !.call = <<>>, !.ret = <<>>], "CursorReset")

\* ------------------------------------------------------- specifications
Slots == 1..Len(flights)

Next ==
  \/ \E d \in Datasets, p \in PageArgs, a \in BOOLEAN : FetchRecords(d, p, a)
  \/ \E d \in Datasets : ForceFetch(d)
  \/ \E d \in Datasets, c \in SearchColumns, v \in SearchValues, o \in SortColumns :
       SearchRecords(d, c, v, o)
  \/ ClearSearch
  \/ \E d \in Datasets : CreateRecord(d)
  \/ \E id \in AllIds : DeleteRecord(id)
  \/ \E id \in AllIds, f \in Fields, v \in EditValues : UpdateRecord(id, f, v)
  \/ TriggerAutosave
  \/ ForceSave
  \/ CancelAutosave
  \/ TimerFire
  \/ Tick
  \/ \E i \in Slots : FetchOk(i)
  \/ \E i \in Slots : FetchFail(i)
  \/ \E i \in Slots : SearchOk(i)
  \/ \E i \in Slots : SearchFail(i)
  \/ \E i \in Slots : CreateOk(i)
  \/ \E i \in Slots : CreateFail(i)
  \/ \E i \in Slots : DeleteOk(i)
  \/ \E i \in Slots : DeleteFail(i)
  \/ \E i \in Slots : UpdateOk(i)
  \/ \E i \in Slots : UpdateFail(i)

Spec == Init /\ [][Next]_vars

\* The autosave path on one loaded page: edits, the scheduler and its flushes
NextSave ==
  \/ FetchRecords("D1", 0, FALSE)
  \/ \E i \in Slots : FetchOk(i)
  \/ \E i \in Slots : UpdateOk(i)
  \/ \E i \in Slots : UpdateFail(i)
  \/ \E id \in AllIds, f \in Fields, v \in EditValues : UpdateRecord(id, f, v)
  \/ TriggerAutosave
  \/ ForceSave
  \/ CancelAutosave
  \/ TimerFire
  \/ Tick

SpecSave == Init /\ [][NextSave]_vars

\* Replacing fetches, unsorted searches and leaving search mode, with their
\* responses
NextFetch ==
  \/ \E d \in Datasets, p \in PageArgs : FetchRecords(d, p, FALSE)
  \/ \E d \in Datasets : ForceFetch(d)
  \/ \E d \in Datasets, c \in SearchColumns, v \in SearchValues :
       SearchRecords(d, c, v, NULL)
  \/ ClearSearch
  \/ Tick
  \/ \E i \in Slots : FetchOk(i)
  \/ \E i \in Slots : FetchFail(i)
  \/ \E i \in Slots : SearchOk(i)
  \/ \E i \in Slots : SearchFail(i)

SpecFetch == Init /\ [][NextFetch]_vars

\* Edits of one field and forced flushes together with deleteRecord and its
\* re-fetches, within one cooldown window
NextSync ==
  \/ \E p \in {1, 2} : FetchRecords("D1", p, FALSE)
  \/ \E i \in Slots : FetchOk(i)
  \/ \E i \in Slots : UpdateOk(i)
  \/ \E i \in Slots : UpdateFail(i)
  \/ \E id \in AllIds, v \in EditValues : UpdateRecord(id, "a", v)
  \/ ForceSave
  \/ \E id \in AllIds : DeleteRecord(id)
  \/ \E i \in Slots : DeleteOk(i)
  \/ \E i \in Slots : DeleteFail(i)
  \/ \E i \in Slots : FetchFail(i)

SpecSync == Init /\ [][NextSync]_vars

\* deleteRecord on either page of D1, in and out of search mode, with an edit
\* pending
NextDelete ==
  \/ \E p \in {1, 2} : FetchRecords("D1", p, FALSE)
  \/ SearchRecords("D1", "a", "v0", NULL)
  \/ \E id \in AllIds, v \in EditValues : UpdateRecord(id, "a", v)
  \/ \E id \in AllIds : DeleteRecord(id)
  \/ \E i \in Slots : FetchOk(i)
  \/ \E i \in Slots : FetchFail(i)
  \/ \E i \in Slots : SearchOk(i)
  \/ \E i \in Slots : DeleteOk(i)
  \/ \E i \in Slots : DeleteFail(i)

SpecDelete == Init /\ [][NextDelete]_vars

\* Entering search mode with edits pending, and the flushes that follow: a first
\* search lists r1; the searches made with an edit pending look for a value no
\* remote record has yet
NextSearchSave ==
  \/ ~InSearchMode(store) /\ SearchRecords("D1", "a", "v0", NULL)
  \/ hasDirty(store.dirtyEngine) /\ SearchRecords("D1", "a", "v1", NULL)
  \/ \E id \in AllIds, v \in EditValues : UpdateRecord(id, "a", v)
  \/ TriggerAutosave
  \/ ForceSave
  \/ TimerFire
  \/ Tick
  \/ \E i \in Slots : SearchOk(i)
  \/ \E i \in Slots : UpdateOk(i)

SpecSearchSave == Init /\ [][NextSearchSave]_vars

\* Every operation that awaits the remote, on one dataset, and the failure of
\* each remote call; a fetch and a delete may also succeed
NextRemote ==
  \/ FetchRecords("D1", 0, FALSE)
  \/ SearchRecords("D1", "a", "v0", NULL)
  \/ CreateRecord("D1")
  \/ \E id \in AllIds : DeleteRecord(id)
  \/ \E id \in AllIds, v \in EditValues : UpdateRecord(id, "a", v)
  \/ ForceSave
  \/ \E i \in Slots : FetchOk(i)
  \/ \E i \in Slots : FetchFail(i)
  \/ \E i \in Slots : SearchFail(i)
  \/ \E i \in Slots : CreateFail(i)
  \/ \E i \in Slots : DeleteOk(i)
  \/ \E i \in Slots : DeleteFail(i)
  \/ \E i \in Slots : UpdateFail(i)

SpecRemote == Init /\ [][NextRemote]_vars

\* Fetches of both datasets, replacing and appending, plain and forced, with
\* edits pending, within one cooldown window
NextSwitch ==
  \/ \E d \in Datasets, p \in {0, 1}, ap \in BOOLEAN : FetchRecords(d, p, ap)
  \/ \E d \in Datasets : ForceFetch(d)
  \/ \E id \in AllIds, v \in EditValues : UpdateRecord(id, "a", v)
  \/ \E i \in Slots : FetchOk(i)

SpecSwitch == Init /\ [][NextSwitch]_vars

\* Edits and forced flushes on the page of D1 while searches move between the
\* two datasets
NextDatasets ==
  \/ FetchRecords("D1", 1, FALSE)
  \/ \E d \in Datasets : SearchRecords(d, "a", "v0", NULL)
  \/ \E id \in AllIds, v \in EditValues : UpdateRecord(id, "a", v)
  \/ ForceSave
  \/ \E i \in Slots : FetchOk(i)
  \/ \E i \in Slots : SearchOk(i)
  \/ \E i \in Slots : UpdateOk(i)

SpecDatasets == Init /\ [][NextDatasets]_vars

\* Page fetches, searches and clearSearch on one dataset, every response a
\* success, the responses arriving in any order
NextOverlap ==
  \/ \E p \in {1, 2} : FetchRecords("D1", p, FALSE)
  \/ \E v \in SearchValues : SearchRecords("D1", "a", v, NULL)
  \/ ClearSearch
  \/ Tick
  \/ \E i \in Slots : FetchOk(i)
  \/ \E i \in Slots : SearchOk(i)

SpecOverlap == Init /\ [][NextOverlap]_vars

\* Replacing and appending fetches of the pages of D1 and createRecord, each
\* called after the one before it has completed
NextAppend ==
  \/ flights = <<>> /\ \E p \in {1, 2}, ap \in BOOLEAN : FetchRecords("D1", p, ap)
  \/ flights = <<>> /\ CreateRecord("D1")
  \/ Tick
  \/ \E i \in Slots : FetchOk(i)
  \/ \E i \in Slots : CreateOk(i)

SpecAppend == Init /\ [][NextAppend]_vars

\* Searches of one dataset that differ in value and in sort column, repeated
\* within and after the cooldown
NextSort ==
  \/ \E v \in SearchValues, o \in SortColumns : SearchRecords("D1", "a", v, o)
  \/ Tick
  \/ \E i \in Slots : SearchOk(i)

SpecSort == Init /\ [][NextSort]_vars

\* A DirtyEngine under every sequence of direct calls
NextDirtyEngine ==
  \/ \E id \in Ids, data \in Patches : DirtyMark(id, data)
  \/ \E id \in Ids, data \in Patches : DirtyUpdate(id, data)
  \/ \E id \in Ids : DirtyClear(id)
  \/ DirtyFlush

SpecDirtyEngine == Init /\ [][NextDirtyEngine]_vars

\* A PaginationEngine under every sequence of direct calls
NextPaginationEngine ==
  \/ CursorNext
  \/ CursorPrev
  \/ \E page \in 0..MaxPage + 1 : CursorGoToPage(page)
  \/ \E meta \in Metas : CursorSetMeta(meta)
  \/ CursorReset

SpecPaginationEngine == Init /\ [][NextPaginationEngine]_vars

\* ================================================================ claims
UpdateSlots == {i \in Slots : flights[i].kind = "update"}
FlushInFlight == UpdateSlots # {}
Buffered(id, f, v) ==
  /\ id \in DOMAIN store.dirtyEngine
  /\ f \in DOMAIN store.dirtyEngine[id]
  /\ store.dirtyEngine[id][f] = v

\* C1: once no flush is in flight, every field value updateRecord wrote is still
\* in the DirtyBuffer patch of its record or was carried by a batchUpdate payload
\* that the remote confirmed.
C1_NoEditLostAcrossFlush ==
  ~FlushInFlight => \A u \in unacked : Buffered(u[1], u[2], u[3])

\* C2: at most one batchUpdate issued through the scheduler is in flight, and the
\* flush callback is never invoked while an earlier invocation has not settled
\* (isSaving is set exactly while one is awaited).
C2_OneFlushAtATime ==
  /\ Cardinality(UpdateSlots) <= 1
  /\ engine.isSaving <=> FlushInFlight

\* A timer expired while a flush was in flight, and its execution was skipped
C2_Witness ==
  /\ lastAct = "TimerFire"
  /\ fire.saving
  /\ ~fire.invoked
  /\ Cardinality(UpdateSlots) = 1

\* The payload of the flush in flight
FlushPayload == flights[CHOOSE i \in UpdateSlots : TRUE].payload

C6_RejectionPropagates ==
  forceLog.flush = "rejected" => forceLog.settled = "rejected"

\* C7: a listed record is in DirtyBuffer iff its local data differs from the
\* data the remote last confirmed.
C7_DirtyIffDiffers ==
  \A i \in 1..Len(store.records) :
    isDirty(store.dirtyEngine, store.records[i].id)
      <=> store.records[i].data # remote.data[store.records[i].id]

\* C8: the dirty flag of every listed record equals DirtyBuffer.isDirty(id).
C8_DirtyFlagDerived ==
  \A i \in 1..Len(store.records) :
    store.records[i].dirty = isDirty(store.dirtyEngine, store.records[i].id)

\* C9: one timer at most is armed, due DELAY_MS after the last schedule(); the
\* expiry that finds no flush in progress invokes the flush callback, DELAY_MS
\* after the last schedule(), and leaves no timer behind to invoke it again.
C9_Debounce ==
  /\ Cardinality(timers) <= 1
  /\ \A t \in timers : t.due = lastScheduleAt + DELAY_MS /\ t.h = engine.timer
  /\ (lastAct = "TimerFire" /\ ~fire.saving) =>
       /\ fire.invoked
       /\ now = lastScheduleAt + DELAY_MS
       /\ timers = {}

\* schedule() was called again, later but before the delay elapsed, and the
\* flush fired once
C9_Witness ==
  /\ lastAct = "TimerFire"
  /\ fire.debounced
  /\ fire.invoked
  /\ Cardinality(UpdateSlots) = 1

\* A flush driven by force() that carries the buffer as it stands
ForcedFlushOfBuffer ==
  \E i \in UpdateSlots :
    flights[i].cont = "force" /\ flights[i].payload = getDirtyRecords(store.dirtyEngine)

FetchKeyOf(req) == <<req.ds, req.page, OrEmpty(req.col), OrEmpty(req.val)>>

PlainFetches == {i \in Slots : flights[i].kind = "fetch" /\ ~flights[i].force}

\* C3: while SearchCriteria is non-null no non-forced fetchRecords request is in
\* flight.
C3_NoPageFetchInSearchMode ==
  InSearchMode(store) => PlainFetches = {}

\* C4: for every fetch-key at most one non-forced fetchPage request is in flight.
C4_FetchSingleFlight ==
  \A i, j \in PlainFetches :
    FetchKeyOf(flights[i]) = FetchKeyOf(flights[j]) => i = j

\* The steps of updateRecord(id, {f: v}) on a listed record
PatchOf(d, id) == IF id \in DOMAIN d THEN d[id] ELSE [x \in {} |-> "v0"]

\* C11: a step of updateRecord(id, {f: v}) issues no remote call and changes
\* nothing remote; the buffer entry of id holds f = v beside every field it held
\* before, the other entries are as they were; the listed record id has
\* data.f = v, its other fields as before, and dirty = true, the other records
\* are as they were; hasDirty() is true and the subscribers were notified.
C11_UpdateRecordIsLocalMerge ==
  [][lastAct' = "UpdateRecord" =>
       \E id \in ListedIds, f \in Fields, v \in EditValues :
         LET old == PatchOf(store.dirtyEngine, id)
             new == store'.dirtyEngine
         IN /\ flights' = flights
            /\ remote' = remote
            /\ DOMAIN new = (DOMAIN store.dirtyEngine) \cup {id}
            /\ \A j \in DOMAIN store.dirtyEngine \ {id} : new[j] = store.dirtyEngine[j]
            /\ DOMAIN new[id] = (DOMAIN old) \cup {f}
            /\ new[id][f] = v
            /\ \A g \in DOMAIN old \ {f} : new[id][g] = old[g]
            /\ Len(store'.records) = Len(store.records)
            /\ \A i \in 1..Len(store.records) :
                 IF store.records[i].id = id
                 THEN /\ store'.records[i].id = id
                      /\ store'.records[i].data[f] = v
                      /\ \A g \in Fields \ {f} :
                           store'.records[i].data[g] = store.records[i].data[g]
                      /\ store'.records[i].dirty
                 ELSE store'.records[i] = store.records[i]
            /\ hasDirty(new)
            /\ notified'
            /\ store'.isLoading = store.isLoading
            /\ store'.isUpdating = store.isUpdating
            /\ store'.error = store.error]_vars

\* updateRecord wrote a second column of a row whose first edit is unflushed
C11_Witness ==
  /\ lastAct = "UpdateRecord"
  /\ \E i \in 1..Len(store.records) :
       /\ store.records[i].dirty
       /\ isDirty(store.dirtyEngine, store.records[i].id)
       /\ DOMAIN store.dirtyEngine[store.records[i].id] = Fields
       /\ \A g \in Fields : store.records[i].data[g] = "v1"
  /\ ~FlushInFlight
  /\ lastFlush.out = "none"

\* The flush callback ran in the step: driven by force() or by a timer expiry
FlushInvoked ==
  \/ lastAct' = "ForceSave" /\ forceLog'.did = "invoked"
  \/ lastAct' = "TimerFire" /\ fire'.invoked

ForcedFetchOf(r, ds, page) ==
  r.kind = "fetch" /\ r.ds = ds /\ r.page = page /\ r.force /\ ~r.append

\* C13: deleteRecord notes the page current at its call. The step that handles
\* the success of the remote delete leaves the id out of the buffer and issues a
\* forced fetch of that page, whatever fetch is in flight or was just completed
\* and whether or not search criteria are set. The step that handles the answer
\* to that fetch issues a forced fetch of the page before when the page came back
\* empty and was not the first, and nothing otherwise; the answer to that second
\* fetch leaves the page before loaded. The step that handles a failed remote
\* delete leaves the record list and the buffer as they were and issues nothing.
C13_DeleteRefetchesPage ==
  [][/\ lastAct' = "DeleteRecord" =>
          /\ flights'[Len(flights')].kind = "delete"
          /\ flights'[Len(flights')].contPage = store.pagination.page
     /\ lastAct' = "DeleteOk" =>
          \E i \in Slots :
            /\ flights[i].kind = "delete"
            /\ ~isDirty(store'.dirtyEngine, flights[i].id)
            /\ Len(flights') = Len(flights)
            /\ SubSeq(flights', 1, Len(flights) - 1) = RemoveAt(flights, i)
            /\ ForcedFetchOf(flights'[Len(flights')], flights[i].ds, flights[i].contPage)
     /\ (lastAct' = "FetchOk" /\ settled'.cont = "delete") =>
          \E i \in Slots :
            /\ flights[i].kind = "fetch" /\ flights[i].cont = "delete"
            /\ IF flights[i].page > 1 /\ store'.records = <<>>
               THEN /\ Len(flights') = Len(flights)
                    /\ SubSeq(flights', 1, Len(flights) - 1) = RemoveAt(flights, i)
                    /\ ForcedFetchOf(flights'[Len(flights')], flights[i].ds,
                                     flights[i].page - 1)
               ELSE flights' = RemoveAt(flights, i)
     /\ (lastAct' = "FetchOk" /\ settled'.cont = "fallback") =>
          \E i \in Slots :
            /\ flights[i].kind = "fetch" /\ flights[i].cont = "fallback"
            /\ flights' = RemoveAt(flights, i)
            /\ store'.pagination.page = flights[i].page
            /\ store'.records = WithDirty(store', fetchPage(remote, flights[i]).records)
     /\ lastAct' = "DeleteFail" =>
          /\ store'.records = store.records
          /\ store'.dirtyEngine = store.dirtyEngine
          /\ Len(flights') = Len(flights) - 1
          /\ remote' = remote]_vars

\* r2 was deleted on page 2, page 2 came back empty, and page 1 is loaded
C13_Witness ==
  /\ lastAct = "FetchOk"
  /\ settled.cont = "fallback"
  /\ store.pagination.page = 1
  /\ ListedIds = {"r1"}
  /\ remote.order["D1"] = <<"r1">>
  /\ ~isDirty(store.dirtyEngine, "r2")

\* C14: no step of searchRecords, from its call to the handling of its answer,
\* changes the buffer, so a patch of a record outside the result set is still
\* buffered when the search has completed; and every later step that runs the
\* flush callback, from a timer or from force(), sends the whole buffer, that
\* patch included.
C14_SearchKeepsPendingEdits ==
  [][/\ lastAct' \in {"SearchRecords", "SearchOk", "SearchFail"} =>
          store'.dirtyEngine = store.dirtyEngine
     /\ (FlushInvoked /\ hasDirty(store.dirtyEngine)) =>
          /\ Len(flights') = Len(flights) + 1
          /\ flights'[Len(flights')].kind = "update"
          /\ \A id \in DOMAIN store.dirtyEngine :
               /\ id \in DOMAIN flights'[Len(flights')].payload
               /\ flights'[Len(flights')].payload[id] = store.dirtyEngine[id]]_vars

\* A search that completed left an edited record out of the list, and the
\* timer-driven flush that followed carries its patch
C14_Witness ==
  /\ lastAct = "TimerFire"
  /\ InSearchMode(store)
  /\ ~store.isSearching
  /\ store.lastSearchTime # 0
  /\ \E i \in UpdateSlots :
       \E id \in DOMAIN flights[i].payload :
         id \notin ListedIds /\ isDirty(store.dirtyEngine, id)

\* C15: after the step that handles the failure of the remote call of
\* fetchRecords, searchRecords, createRecord or deleteRecord, state.error is
\* non-null, isLoading is false and the operation has rejected; after the step
\* that handles the failure of the batch update of a flush, state.error is
\* non-null, isUpdating is false, and updateRecords and the flush have rejected.
C15_FailureStoredAndRethrown ==
  /\ lastAct \in {"FetchFail", "SearchFail", "CreateFail", "DeleteFail"} =>
       /\ store.error # NULL
       /\ ~store.isLoading
       /\ settled.out = "rejected"
  /\ lastAct = "UpdateFail" =>
       /\ store.error # NULL
       /\ ~store.isUpdating
       /\ settled.out = "rejected"
       /\ lastFlush.out = "rejected"

\* The re-fetch of a deleteRecord failed: fetchRecords rejected to deleteRecord
C15_Witness ==
  /\ lastAct = "FetchFail"
  /\ settled = [op |-> "fetch", out |-> "rejected", cont |-> "delete"]
  /\ store.error = "delete failed"
  /\ ~store.isLoading

\* The other entries of the Map are as they were before the call on id
OthersKept(id) ==
  /\ (DOMAIN unit'.dirty) \ {id} = (DOMAIN unit.dirty) \ {id}
  /\ \A j \in (DOMAIN unit.dirty) \ {id} : unit'.dirty[j] = unit.dirty[j]

\* C16: update(id, patch) leaves for id a patch with every field of the old
\* patch and of the new one, the new value winning for a field in both, or
\* the new patch itself when there was no entry; mark(id, data) leaves data as the
\* whole patch; neither touches another entry.
C16_UpdateMergesMarkReplaces ==
  [][/\ lastAct' = "DirtyUpdate" =>
          LET id == unit'.call[1]
              patch == unit'.call[2]
              old == PatchOf(unit.dirty, id)
          IN /\ isDirty(unit'.dirty, id)
             /\ DOMAIN unit'.dirty[id] = (DOMAIN old) \cup (DOMAIN patch)
             /\ \A f \in DOMAIN patch : unit'.dirty[id][f] = patch[f]
             /\ \A f \in (DOMAIN old) \ (DOMAIN patch) : unit'.dirty[id][f] = old[f]
             /\ OthersKept(id)
     /\ lastAct' = "DirtyMark" =>
          /\ isDirty(unit'.dirty, unit'.call[1])
          /\ unit'.dirty[unit'.call[1]] = unit'.call[2]
          /\ OthersKept(unit'.call[1])]_vars

\* update(r1, {b: v1}) on an entry that held a only left {a, b}
C16_Witness ==
  /\ lastAct = "DirtyUpdate"
  /\ unit.call = <<"r1", [f \in {"b"} |-> "v1"]>>
  /\ isDirty(unit.dirty, "r1")
  /\ unit.dirty["r1"] = [f \in Fields |-> IF f = "a" THEN "v0" ELSE "v1"]

\* C17: flush() returns one element {id, data} for each entry getDirtyRecords()
\* would have returned just before, no other and none twice, and leaves the
\* buffer empty: hasDirty() is false and getDirtyCount() is 0.
C17_FlushReturnsAllAndEmpties ==
  [][lastAct' = "DirtyFlush" =>
       LET before == getDirtyRecords(unit.dirty)
           ret == unit'.ret
       IN /\ Len(ret) = Cardinality(DOMAIN before)
          /\ {ret[i].id : i \in 1..Len(ret)} = DOMAIN before
          /\ \A i \in 1..Len(ret) : ret[i].data = before[ret[i].id]
          /\ ~hasDirty(unit'.dirty)
          /\ getDirtyCount(unit'.dirty) = 0]_vars

\* flush() returned the entries of two records
C17_Witness ==
  /\ lastAct = "DirtyFlush"
  /\ Len(unit.ret) = 2
  /\ unit.ret[1].id # unit.ret[2].id
  /\ ~hasDirty(unit.dirty)

\* C18: next() with hasMore true adds one to page and returns the new page; with
\* hasMore false it returns null and leaves page, limit, total, totalPages and
\* hasMore as they were.
C18_NextAdvancesOnlyIfMore ==
  [][lastAct' = "CursorNext" =>
       IF unit.cursor.hasMore
       THEN /\ unit'.cursor = [unit.cursor EXCEPT !.page = unit.cursor.page + 1]
            /\ unit'.ret = <<unit.cursor.page + 1>>
       ELSE /\ unit'.cursor = unit.cursor
            /\ unit'.ret = <<>>]_vars

\* next() on the last page of a listing: null, and the page stays
C18_Witness ==
  /\ lastAct = "CursorNext"
  /\ unit.ret = <<>>
  /\ ~unit.cursor.hasMore
  /\ unit.cursor.page = 2
  /\ unit.cursor.totalPages = 2

\* A timer armed by schedule() expired while isSaving was true: execute() returned
\* at its guard, and the host has dropped the timer
ExpiryAbsorbed == lastAct = "TimerFire" /\ fire.saving /\ ~fire.invoked

\* C19: a schedule() made while a flush is in flight arms a subsequent flush. A
\* timer that expires with no flush in progress invokes the flush callback; when
\* the timer expired during the flush and the flush then completes, with no
\* cancel(), schedule() or force() in between, a timer-driven flush is still to
\* come: a timer is armed.
C19_ScheduleDuringFlushFlushesLater ==
  [][/\ (lastAct' = "TimerFire" /\ ~engine.isSaving) => fire'.invoked
     /\ (ExpiryAbsorbed /\ lastAct' \in {"UpdateOk", "UpdateFail"}) =>
          /\ ~engine'.isSaving
          /\ timers' # {}]_vars

\* C20: cancellation is timer-only. cancel() leaves no timer armed, invokes no
\* flush and touches neither the buffer, the requests in flight nor isSaving;
\* only schedule() arms a timer, so no timer-driven flush runs after cancel()
\* until schedule() is called again; a flush in flight at cancel() still
\* completes with its handling: on success isSaving is reset and the flush
\* resolves, on failure isSaving is reset, the buffer is kept, the error is
\* stored and the flush rejects.
C20_CancelIsTimerOnly ==
  [][/\ lastAct' = "CancelAutosave" =>
          /\ timers' = {}
          /\ engine'.timer = 0
          /\ engine'.isSaving = engine.isSaving
          /\ flights' = flights
          /\ store' = store
          /\ remote' = remote
     /\ ~(timers' \subseteq timers) => lastAct' = "TriggerAutosave"
     /\ lastAct' = "TimerFire" => \E t \in timers : t.h = engine.timer /\ t \notin timers'
     /\ lastAct' \in {"UpdateOk", "UpdateFail"} =>
          /\ engine.isSaving /\ ~engine'.isSaving
          /\ Len(flights') = Len(flights) - 1
          /\ timers' = timers
     /\ lastAct' = "UpdateOk" =>
          /\ lastFlush'.out = "resolved"
          /\ store'.isUpdating = FALSE
     /\ lastAct' = "UpdateFail" =>
          /\ lastFlush'.out = "rejected"
          /\ store'.dirtyEngine = store.dirtyEngine
          /\ store'.error # NULL]_vars

\* cancel() of an armed timer while a flush is in flight: the timer is gone, the
\* batch update is still in flight and isSaving is still true
C20_Witness ==
  /\ lastAct = "CancelAutosave"
  /\ FlushInFlight
  /\ engine.isSaving
  /\ timers = {}
  /\ engine.timer = 0

\* The ids of page 1 of the unfiltered listing of a dataset
FirstPageIds(r, ds) == SubSeq(r.order[ds], 1, Min(DEFAULT_LIMIT, Len(r.order[ds])))

IdsOf(records) == [i \in 1..Len(records) |-> records[i].id]

\* C21: clearSearch() sets SearchCriteria to null and issues a forced fetch of
\* page 1 of the active dataset without criteria, whatever the dedup state and
\* the cooldown; when that fetch completes the list holds the page-1 listing of
\* the dataset and SearchCriteria is null.
C21_ClearSearchRefetchesPageOne ==
  [][/\ lastAct' = "ClearSearch" =>
          /\ store'.search = NoSearch
          /\ Len(flights') = Len(flights) + 1
          /\ LET r == flights'[Len(flights')]
             IN /\ ForcedFetchOf(r, store.currentDatasetId, 1)
                /\ r.col = NULL /\ r.val = NULL
     /\ (lastAct' = "FetchOk" /\ settled'.cont = "clearSearch") =>
          /\ \E i \in Slots :
               /\ flights[i].cont = "clearSearch"
               /\ flights' = RemoveAt(flights, i)
               /\ IdsOf(store'.records) = FirstPageIds(remote, flights[i].ds)
          /\ store'.search = NoSearch]_vars

\* C22: a fetchRecords call that issues a request for a dataset other than the
\* active one with append false leaves, before the request is issued, an empty
\* list, the initial pagination in the state and in the PaginationEngine and an
\* empty buffer; a call for the active dataset, or with append true, leaves the
\* list, both paginations and the buffer as they were.
C22_DatasetSwitchClears ==
  [][lastAct' \in {"FetchRecords", "ForceFetch"} =>
       LET req == flights'[Len(flights')]
       IN /\ Len(flights') = Len(flights) + 1
          /\ req.kind = "fetch"
          /\ IF req.ds # store.currentDatasetId /\ ~req.append
             THEN /\ store'.records = <<>>
                  /\ store'.pagination = PaginationInit
                  /\ store'.paginationEngine.page = 1
                  /\ store'.paginationEngine.total = 0
                  /\ store'.paginationEngine.totalPages = 0
                  /\ ~hasDirty(store'.dirtyEngine)
                  /\ req.limit = PaginationInit.limit
             ELSE /\ store'.records = store.records
                  /\ store'.pagination = store.pagination
                  /\ store'.paginationEngine = store.paginationEngine
                  /\ store'.dirtyEngine = store.dirtyEngine]_vars

\* A fetch of D2 issued with append true while r1 of D1 is listed and edited:
\* nothing was cleared
C22_Witness ==
  /\ lastAct = "FetchRecords"
  /\ store.currentDatasetId = "D2"
  /\ flights[Len(flights)].ds = "D2"
  /\ flights[Len(flights)].append
  /\ isDirty(store.dirtyEngine, "r1")
  /\ "r1" \in ListedIds

\* The listed records of s whose id has a patch in the buffer show the patched
\* value in every patched field
ShowsPatches(s) ==
  \A i \in 1..Len(s.records) :
    LET rec == s.records[i]
    IN isDirty(s.dirtyEngine, rec.id) =>
         \A f \in DOMAIN s.dirtyEngine[rec.id] : rec.data[f] = s.dirtyEngine[rec.id][f]

\* C23: after a successful fetchRecords or searchRecords response, every listed
\* record whose id has a patch in the buffer shows the patched field values: the
\* values a flush would send are the values the row displays.
C23_RefetchKeepsEditVisible ==
  [][lastAct' \in {"FetchOk", "SearchOk"} => ShowsPatches(store')]_vars

\* The dataset a record of the remote belongs to
HomeOf(id) ==
  CHOOSE d \in Datasets : \E i \in 1..Len(RemoteInit.order[d]) : RemoteInit.order[d][i] = id

\* C24: every entry of the buffer belongs to a record of the active dataset, and
\* every batchUpdate(datasetId, patches) in flight carries only patches of
\* records of datasetId.
C24_PatchesStayInTheirDataset ==
  /\ \A id \in DOMAIN store.dirtyEngine : HomeOf(id) = store.currentDatasetId
  /\ \A i \in UpdateSlots :
       \A id \in DOMAIN flights[i].payload : HomeOf(id) = flights[i].ds

\* What the remote answers to a list-replacing request
Listing(r, req) == IF req.kind = "search" THEN searchPage(r, req) ELSE fetchPage(r, req)

\* C25: when the successful response of a list-replacing request is handled and
\* no other list-replacing request is left in flight, the list and the
\* pagination are those of the response to the request issued last and
\* SearchCriteria are the criteria of that request, in whatever order the
\* responses arrived.
C25_LatestRequestWins ==
  [][(/\ lastAct' \in {"FetchOk", "SearchOk"}
      /\ \A k \in 1..Len(flights') : ~ListReplacing(flights'[k])) =>
       LET req == lastList[1]
           response == Listing(remote', req)
       IN /\ IdsOf(store'.records) = IdsOf(response.records)
          /\ store'.pagination = StatePagination(response.meta)
          /\ store'.search = [column |-> req.col, value |-> req.val]]_vars

\* C26: the ids of the listed records are pairwise different.
C26_ListedIdsUnique ==
  \A i, j \in 1..Len(store.records) :
    store.records[i].id = store.records[j].id => i = j

\* C27: isScheduled() is true exactly when the host holds a timer the engine
\* armed, one that has neither fired nor been cancelled.
C27_IsScheduledIffTimerArmed ==
  isScheduled(engine) <=> (\E t \in timers : t.h = engine.timer)

\* A search for the same dataset, column, value and sortBy is in flight, or
\* completed less than FETCH_COOLDOWN ago
SameSearchPending(d, c, v, o) ==
  \/ \E i \in Slots :
       /\ flights[i].kind = "search"
       /\ flights[i].ds = d /\ flights[i].col = c /\ flights[i].val = v
       /\ flights[i].sortBy = o
  \/ /\ store.lastSearchTime # 0
     /\ now - store.lastSearchTime < FETCH_COOLDOWN
     /\ store.lastSearchKey = SearchKey(d, c, v)
     /\ lastSortBy = o

\* C28: a non-forced searchRecords call is suppressed only if a search with the
\* same datasetId, column, value and sortBy is in flight or completed within the
\* cooldown; any other call, also one that differs from the previous one only in
\* sortBy, issues a searchPage call carrying its sortBy.
C28_SearchDedupComparesSortBy ==
  \A d \in Datasets, c \in SearchColumns, v \in SearchValues, o \in SortColumns :
    LET r == searchRecords(store, d, c, v, o, FALSE)
    IN ~SameSearchPending(d, c, v, o) =>
         /\ Len(r.reqs) = 1
         /\ r.reqs[1].kind = "search"
         /\ r.reqs[1].sortBy = o

\* The requests of fetchRecords, searchRecords, createRecord and deleteRecord
LoadingSlots == {i \in Slots : flights[i].kind \in {"fetch", "search", "create", "delete"}}

\* C29: isLoading is true exactly when a fetchRecords, searchRecords,
\* createRecord or deleteRecord request is in flight.
C29_IsLoadingIffInFlight ==
  store.isLoading <=> LoadingSlots # {}

\* page, total, totalPages and hasMore of a pagination view
PageView(p) ==
  [page |-> p.page, total |-> p.total, totalPages |-> p.totalPages, hasMore |-> p.hasMore]

\* C30: whenever no request is in flight, the pagination snapshot of the state
\* and the PaginationEngine agree on page, total, totalPages and hasMore.
C30_PaginationViewsAgree ==
  flights = <<>> => PageView(store.pagination) = PageView(store.paginationEngine)

====
